---- MODULE Spec2Model ----
(***************************************************************************)
(* A model of CloudWatchWriter (src/cloudwatch_writer.go): producers call  *)
(* Write / Close / SetBatchInterval, one background goroutine runs         *)
(* queueMonitor, which batches the queued events and hands each batch to   *)
(* sendBatch, which calls the remote PutLogEvents.                         *)
(*                                                                         *)
(* Every access to a shared field (queue, err, closing, done,              *)
(* nextSequenceToken, batchInterval) and every remote call is one step;    *)
(* statements on goroutine-local values are merged into the step of the    *)
(* shared access that follows or precedes them.                            *)
(***************************************************************************)
EXTENDS Integers, Sequences, FiniteSets

\* ------------------------------------------------------------ constants
\* Durations and time points are counted in milliseconds (TLC's integers
\* are 32 bits wide): the code's 200000000 ns.
minBatchInterval == 200
batchSizeLimit == 1048576
additionalBytesPerLogEvent == 26
\* The code's maxNumLogEvents is 10000; the model runs with a small stand-in
\* (every guard and every property refers to it by name only).
maxNumLogEvents == 2

\* -------------------------------------------------------------- bounds
\* Write calls in one run of a single producer; producers that run
\* concurrently share one call fewer.
MaxWrites == 3
MaxWritesShared == MaxWrites - 1
\* Calls of DescribeLogStreams in one run of the constructor (the code's
\* recursion has no bound of its own).
MaxDescribe == 3

\* One tick of the clock, in milliseconds.
TickMs == minBatchInterval
\* Message lengths a producer may write: a small one, and one that is over
\* the batch limit on its own.
MsgLens == {10, batchSizeLimit - additionalBytesPerLogEvent + 1}
\* Arguments of SetBatchInterval.
Intervals == {minBatchInterval - 1, minBatchInterval, 2 * minBatchInterval}
\* Sequence tokens of the remote stream; NoToken is the nil *string.
Tokens == {"t1", "t2"}
NoToken == "nil"
\* Errors stored in c.err are numbered by the failed send that made them
\* (every failed send has a batch of its own, so there are no more than
\* MaxWrites); NoErr is the nil error.
NoErr == 0
ErrIds == 1..MaxWrites

Producers == {"p1", "p2"}
SingleProducer == {"p1"}

VARIABLES
    \* CloudWatchWriter's fields
    batchInterval, queue, err, nextSequenceToken, closing, done,
    \* queueMonitor's locals and position, sendBatch's frame
    dpc, batch, batchSize, nextSendTime, item, retryNum,
    \* each producer's position in Write / Close and its locals
    ppc, log, lastErr,
    \* the last PutLogEvents call the remote received, and the ids of the
    \* events of every batch's first call
    lastPut, sentIds,
    \* history: counters and what the calls returned
    nWrites, nFail, returned, owed, wOwed, prevErr,
    closeCalledAt, closeReturned,
    \* NewWithClient: its position, the calls getOrCreateLogStream has made
    \* to the client with their answers, and what getOrCreateLogStream
    \* returned
    npc, calls, logStream, bootErr

fields == <<batchInterval, queue, err, nextSequenceToken, closing, done>>
dlocals == <<dpc, batch, batchSize, nextSendTime, item, retryNum>>
plocals == <<ppc, log, lastErr>>
history == <<nWrites, nFail, returned, owed, wOwed, prevErr,
             closeCalledAt, closeReturned>>
remote == <<lastPut, sentIds>>
boot == <<npc, calls, logStream, bootErr>>
vars == <<fields, dlocals, plocals, remote, history, boot>>

\* time.Now(): time points are counted from the present (see Tick).
now == 0

NoItem == [id |-> 0, len |-> 0]
\* The nil *types.LogStream, and the nil error of the constructor.
NoStream == [ok |-> FALSE, tok |-> NoToken]
NoBootErr == "nil"
\* The answer DescribeLogStreams gave when the stream was found.
Found == [op |-> "DescribeLogStreams", res |-> "found"]
NoPut == [events |-> <<>>, token |-> NoToken, retry |-> 0, res |-> "none",
          tok |-> NoToken, nth |-> 0]

\* State after NewWithClient has returned a writer: the interval passed
\* SetBatchInterval, the token is the one of the stream that
\* getOrCreateLogStream found (nil for a stream without events), and
\* `go queueMonitor()` has not run its first line.
Init ==
    /\ batchInterval = minBatchInterval
    /\ queue = <<>>
    /\ err = NoErr
    /\ nextSequenceToken \in {NoToken, "t1"}
    /\ closing = FALSE
    /\ done = FALSE
    /\ dpc = "start"
    /\ batch = <<>>
    /\ batchSize = 0
    /\ nextSendTime = 0
    /\ item = NoItem
    /\ retryNum = 0
    /\ ppc = [p \in Producers |-> "idle"]
    /\ log = [p \in Producers |-> 0]
    /\ lastErr = [p \in Producers |-> NoErr]
    /\ lastPut = NoPut
    /\ sentIds = <<>>
    /\ nWrites = 0
    /\ nFail = 0
    /\ returned = [e \in ErrIds |-> 0]
    /\ owed = NoErr
    /\ wOwed = [p \in Producers |-> NoErr]
    /\ prevErr = [p \in Producers |-> FALSE]
    /\ closeCalledAt = -1
    /\ closeReturned = FALSE
    /\ npc = "returned"
    /\ calls = <<Found>>
    /\ logStream = NoStream
    /\ bootErr = NoBootErr

\* ------------------------------------------------------------ the queue
\* c.queue is a lane.Queue: Enqueue appends at the tail, Dequeue removes the
\* head or returns nil when the queue is empty.
Enqueue_front(q, e) == <<e>> \o q

Enqueue(q, e) == Append(q, e)

DequeueItem(q) == Head(q)

DequeueRest(q) == Tail(q)

\* ---------------------------------------------------------------- Write
\* Write, lines 143-148: build the event and enqueue it.
Write_Enqueue(p, l) ==
    /\ ppc[p] = "idle"
    /\ queue' = Enqueue(queue, [id |-> nWrites + 1, len |-> l])
    /\ nWrites' = nWrites + 1
    /\ log' = [log EXCEPT ![p] = l]
    /\ ppc' = [ppc EXCEPT ![p] = "getErr"]
    /\ wOwed' = [wOwed EXCEPT ![p] = owed]
    /\ owed' = NoErr
    /\ UNCHANGED <<boot, batchInterval, err, nextSequenceToken, closing, done,
                   dlocals, lastErr, remote, nFail, returned, prevErr,
                   closeCalledAt, closeReturned>>

\* Write, lines 151-152 and 156: lastErr := c.getErr(); a nil lastErr
\* returns (len(log), nil).
Write_getErr(p) ==
    /\ ppc[p] = "getErr"
    /\ owed' = IF err # NoErr /\ err = owed THEN NoErr ELSE owed
    /\ IF err = NoErr
       THEN /\ ppc' = [ppc EXCEPT ![p] = "idle"]
            /\ prevErr' = [prevErr EXCEPT ![p] = FALSE]
            /\ log' = [log EXCEPT ![p] = 0]
            /\ wOwed' = [wOwed EXCEPT ![p] = NoErr]
            /\ UNCHANGED lastErr
       ELSE /\ ppc' = [ppc EXCEPT ![p] = "setErr"]
            /\ lastErr' = [lastErr EXCEPT ![p] = err]
            /\ UNCHANGED <<prevErr, log, wOwed>>
    /\ UNCHANGED <<boot, fields, dlocals, remote, nWrites, nFail, returned,
                   closeCalledAt, closeReturned>>

\* Write, lines 153-154: c.setErr(nil); return 0, lastErr.
Write_setErr(p) ==
    /\ ppc[p] = "setErr"
    /\ err' = NoErr
    /\ ppc' = [ppc EXCEPT ![p] = "idle"]
    /\ returned' = [returned EXCEPT ![lastErr[p]] = @ + 1]
    /\ prevErr' = [prevErr EXCEPT ![p] = TRUE]
    /\ log' = [log EXCEPT ![p] = 0]
    /\ lastErr' = [lastErr EXCEPT ![p] = NoErr]
    /\ wOwed' = [wOwed EXCEPT ![p] = NoErr]
    /\ UNCHANGED <<boot, batchInterval, queue, nextSequenceToken, closing, done,
                   dlocals, remote, nWrites, nFail, owed, closeCalledAt,
                   closeReturned>>

\* ---------------------------------------------------------------- Close
\* Close, line 243 (setClosing, lines 255-260).  Close is called once.
Close_setClosing(p) ==
    /\ ppc[p] = "idle"
    /\ closeCalledAt = -1
    /\ closing' = TRUE
    /\ ppc' = [ppc EXCEPT ![p] = "closeWait"]
    /\ closeCalledAt' = nWrites
    /\ UNCHANGED <<boot, batchInterval, queue, err, nextSequenceToken, done, dlocals,
                   log, lastErr, remote, nWrites, nFail, returned, owed,
                   wOwed, prevErr, closeReturned>>

\* Close, line 245: <-c.done returns once the channel is closed.
Close_done(p) ==
    /\ ppc[p] = "closeWait"
    /\ done
    /\ ppc' = [ppc EXCEPT ![p] = "idle"]
    /\ closeReturned' = TRUE
    /\ UNCHANGED <<boot, fields, dlocals, log, lastErr, remote, nWrites, nFail,
                   returned, owed, wOwed, prevErr, closeCalledAt>>

\* ----------------------------------------------------- SetBatchInterval
\* SetBatchInterval, lines 90-97: an interval below the minimum is refused
\* and nothing is stored; any other is stored under the lock.
IntervalTooShort_lax(d) == d < minBatchInterval - 1

IntervalTooShort(d) == d < minBatchInterval

SetBatchInterval(p, d) ==
    /\ ppc[p] = "idle"
    /\ batchInterval' = IF IntervalTooShort(d) THEN batchInterval ELSE d
    /\ UNCHANGED <<boot, queue, err, nextSequenceToken, closing, done, dlocals,
                   plocals, remote, history>>

\* ------------------------------------------------------------ sendBatch
\* sendBatch, line 216: the call is a no-op for an empty batch or after the
\* one retry.
SendSkipped_retryOnly(b, r) == r > 1

SendSkipped_late(b, r) == r > 2 \/ Len(b) = 0

SendSkipped(b, r) == r > 1 \/ Len(b) = 0

\* sendBatch, line 231: the token stored after an InvalidSequenceToken
\* exception that reports `expected`.
TokenAfterConflict_kept(expected, current) == current

TokenAfterConflict(expected, current) == expected

\* The size the code counts for one event, line 192.
MessageSize(e) == e.len + additionalBytesPerLogEvent

\* A call of sendBatch(batch, 0) from the place `site` of queueMonitor: the
\* dispatcher enters sendBatch and comes back at "after_<site>".
CallSendBatch(site) ==
    /\ dpc' = site
    /\ retryNum' = 0

InSend == dpc \in {"send_time", "send_closing", "send_size", "send_count"}

AfterSend ==
    CASE dpc = "send_time" -> "after_time"
      [] dpc = "send_closing" -> "after_closing"
      [] dpc = "send_size" -> "after_size"
      [] dpc = "send_count" -> "after_count"

\* The ids of a batch's events, in the batch's order.
Ids(b) == [i \in 1..Len(b) |-> b[i].id]

\* The remote's record of a PutLogEvents call: the input's LogEvents and
\* SequenceToken (lines 220-225), the answer, and which call for this batch
\* it is.
PutRecord(res, tok) ==
    [events |-> batch, token |-> nextSequenceToken, retry |-> retryNum,
     res |-> res, tok |-> tok,
     nth |-> IF lastPut.events = batch THEN lastPut.nth + 1 ELSE 1]

Put(res, tok) ==
    /\ lastPut' = PutRecord(res, tok)
    /\ sentIds' = IF lastPut.events = batch THEN sentIds ELSE sentIds \o Ids(batch)

\* Leaving sendBatch: back in queueMonitor after the call.
Return ==
    /\ dpc' = AfterSend
    /\ retryNum' = 0

\* sendBatch, lines 216-218: return without a remote call.
sendBatch_skip ==
    /\ InSend
    /\ SendSkipped(batch, retryNum)
    /\ Return
    /\ UNCHANGED <<boot, fields, batch, batchSize, nextSendTime, item, plocals, remote, history>>

\* sendBatch, lines 220-227 and 238: PutLogEvents succeeds and its
\* NextSequenceToken is stored.
sendBatch_ok(next) ==
    /\ InSend
    /\ ~SendSkipped(batch, retryNum)
    /\ Put("ok", next)
    /\ nextSequenceToken' = next
    /\ Return
    /\ UNCHANGED <<boot, batchInterval, queue, err, closing, done, batch, batchSize,
                   nextSendTime, item, plocals, history>>

\* sendBatch, lines 220-233: PutLogEvents fails with an
\* InvalidSequenceTokenException; the expected token is stored and sendBatch
\* calls itself with retryNum+1, then returns.
sendBatch_invalidToken(expected) ==
    /\ InSend
    /\ ~SendSkipped(batch, retryNum)
    /\ Put("conflict", expected)
    /\ nextSequenceToken' = TokenAfterConflict(expected, nextSequenceToken)
    /\ retryNum' = retryNum + 1
    /\ UNCHANGED <<boot, batchInterval, queue, err, closing, done, dpc, batch,
                   batchSize, nextSendTime, item, plocals, history>>

\* sendBatch with a retry after any error.
sendBatch_err_retried ==
    /\ InSend
    /\ ~SendSkipped(batch, retryNum)
    /\ Put("fail", NoToken)
    /\ nFail' = nFail + 1
    /\ err' = nFail + 1
    /\ owed' = nFail + 1
    /\ prevErr' = [p \in Producers |-> FALSE]
    /\ retryNum' = retryNum + 1
    /\ UNCHANGED dpc
    /\ UNCHANGED <<boot, batchInterval, queue, nextSequenceToken, closing, done,
                   batch, batchSize, nextSendTime, item, plocals, nWrites,
                   returned, wOwed, closeCalledAt, closeReturned>>

\* sendBatch, lines 220-230 and 235-236: PutLogEvents fails with any other
\* error, which is stored in c.err.
sendBatch_err ==
    /\ InSend
    /\ ~SendSkipped(batch, retryNum)
    /\ Put("fail", NoToken)
    /\ nFail' = nFail + 1
    /\ err' = nFail + 1
    /\ owed' = nFail + 1
    /\ prevErr' = [p \in Producers |-> FALSE]
    /\ Return
    /\ UNCHANGED <<boot, batchInterval, queue, nextSequenceToken, closing, done,
                   batch, batchSize, nextSendTime, item, plocals, nWrites,
                   returned, wOwed, closeCalledAt, closeReturned>>

\* --------------------------------------------------------- queueMonitor
\* queueMonitor, line 195: the event would push the batch over the limit.
OverSizeLimit(size, msgSize) == size + msgSize > batchSizeLimit

\* queueMonitor, line 205: the batch holds the maximum number of events.
CountReached_late(b) == Len(b) > maxNumLogEvents

CountReached(b) == Len(b) >= maxNumLogEvents

\* isClosing, lines 248-253.
isClosing_unseen == FALSE

isClosing == closing

\* queueMonitor, lines 202-210: append the event `e`, add its size, and
\* send the batch at once when it holds maxNumLogEvents events.
AppendEvent(b, size, e) ==
    /\ batch' = Append(b, e)
    /\ batchSize' = size + MessageSize(e)
    /\ item' = NoItem
    /\ IF CountReached(Append(b, e))
       THEN CallSendBatch("send_count")
       ELSE dpc' = "loop" /\ retryNum' = retryNum

\* time.Time.After, line 165: t is strictly later than u.
After_orAt(t, u) == t >= u

After(t, u) == t > u

\* queueMonitor, lines 160-162.
queueMonitor_start ==
    /\ dpc = "start"
    /\ batch' = <<>>
    /\ batchSize' = 0
    /\ nextSendTime' = now + batchInterval
    /\ dpc' = "loop"
    /\ UNCHANGED <<boot, fields, item, retryNum, plocals, remote, history>>

\* queueMonitor, lines 172-173 and 186-205: Dequeue from the batch `b` of
\* size `size`; on an empty queue go on to isClosing; an event that would
\* push the batch over the size limit sends the batch first, any other is
\* appended.
Dequeue(b, size) ==
    IF Len(queue) = 0
    THEN /\ dpc' = "isClosing"
         /\ batch' = b
         /\ batchSize' = size
         /\ UNCHANGED <<queue, item, retryNum>>
    ELSE /\ queue' = DequeueRest(queue)
         /\ IF OverSizeLimit(size, MessageSize(DequeueItem(queue)))
            THEN /\ item' = DequeueItem(queue)
                 /\ batch' = b
                 /\ batchSize' = size
                 /\ CallSendBatch("send_size")
            ELSE AppendEvent(b, size, DequeueItem(queue))

\* queueMonitor, lines 165-166 and 172-205: past the send time the batch is
\* sent; otherwise the loop goes on with Dequeue.
queueMonitor_loop ==
    /\ dpc = "loop"
    /\ IF After(now, nextSendTime)
       THEN /\ CallSendBatch("send_time")
            /\ UNCHANGED <<queue, batch, batchSize, item>>
       ELSE Dequeue(batch, batchSize)
    /\ UNCHANGED <<boot, batchInterval, err, nextSequenceToken, closing, done,
                   nextSendTime, plocals, remote, history>>

\* queueMonitor, lines 167-169 and 172-205: after the time-triggered send
\* the batch is reset; nextSendTime.Add returns a new Time that is dropped,
\* so nextSendTime keeps its value; the loop goes on with Dequeue.
queueMonitor_afterTime ==
    /\ dpc = "after_time"
    /\ nextSendTime' = nextSendTime
    /\ Dequeue(<<>>, 0)
    /\ UNCHANGED <<boot, batchInterval, err, nextSequenceToken, closing, done,
                   plocals, remote, history>>

\* queueMonitor, lines 197-205: after the size-triggered send the event
\* starts a new batch.
queueMonitor_afterSize ==
    /\ dpc = "after_size"
    /\ nextSendTime' = now + batchInterval
    /\ AppendEvent(<<>>, 0, item)
    /\ UNCHANGED <<boot, fields, plocals, remote, history>>

\* queueMonitor, lines 207-209.
queueMonitor_afterCount ==
    /\ dpc = "after_count"
    /\ batch' = <<>>
    /\ batchSize' = 0
    /\ nextSendTime' = now + batchInterval
    /\ dpc' = "loop"
    /\ UNCHANGED <<boot, fields, item, retryNum, plocals, remote, history>>

\* queueMonitor, lines 175-176 and 182-183: on an empty queue, send the
\* batch when closing, otherwise sleep and start the loop again.
queueMonitor_isClosing ==
    /\ dpc = "isClosing"
    /\ IF isClosing
       THEN CallSendBatch("send_closing")
       ELSE dpc' = "loop" /\ retryNum' = retryNum
    /\ UNCHANGED <<boot, fields, batch, batchSize, nextSendTime, item, plocals, remote, history>>

\* queueMonitor closing c.done and going on with the loop.
queueMonitor_afterClosing_goesOn ==
    /\ dpc = "after_closing"
    /\ done' = TRUE
    /\ dpc' = "loop"
    /\ UNCHANGED <<boot, batchInterval, queue, err, nextSequenceToken, closing,
                   batch, batchSize, nextSendTime, item, retryNum, plocals,
                   remote, history>>

\* queueMonitor, lines 179-180: close(c.done) and return.
queueMonitor_afterClosing ==
    /\ dpc = "after_closing"
    /\ done' = TRUE
    /\ dpc' = "exited"
    /\ UNCHANGED <<boot, batchInterval, queue, err, nextSequenceToken, closing,
                   batch, batchSize, nextSendTime, item, retryNum, plocals,
                   remote, history>>

\* Time passes.  Time points are kept relative to the present, so a tick
\* moves the stored nextSendTime into the past.  The only use of
\* nextSendTime is the comparison of line 165, so ticks after the send time
\* has passed change nothing and are left out.
Tick ==
    /\ dpc # "start"
    /\ ~After(now, nextSendTime)
    /\ nextSendTime' = nextSendTime - TickMs
    /\ UNCHANGED <<boot, fields, dpc, batch, batchSize, item, retryNum, plocals,
                   remote, history>>

\* -------------------------------------------------------- NewWithClient
\* State when NewWithClient is called: the writer's fields hold their zero
\* values, no goroutine runs and no caller has the writer yet.
InitNew ==
    /\ batchInterval = 0
    /\ queue = <<>>
    /\ err = NoErr
    /\ nextSequenceToken = NoToken
    /\ closing = FALSE
    /\ done = FALSE
    /\ dpc = "unstarted"
    /\ batch = <<>>
    /\ batchSize = 0
    /\ nextSendTime = 0
    /\ item = NoItem
    /\ retryNum = 0
    /\ ppc = [p \in Producers |-> "new"]
    /\ log = [p \in Producers |-> 0]
    /\ lastErr = [p \in Producers |-> NoErr]
    /\ lastPut = NoPut
    /\ sentIds = <<>>
    /\ nWrites = 0
    /\ nFail = 0
    /\ returned = [e \in ErrIds |-> 0]
    /\ owed = NoErr
    /\ wOwed = [p \in Producers |-> NoErr]
    /\ prevErr = [p \in Producers |-> FALSE]
    /\ closeCalledAt = -1
    /\ closeReturned = FALSE
    /\ npc = "SetBatchInterval"
    /\ calls = <<>>
    /\ logStream = NoStream
    /\ bootErr = NoBootErr

\* Everything but the constructor's own state and the fields it sets.
running == <<queue, err, closing, done, batch, batchSize, nextSendTime, item,
             retryNum, log, lastErr, remote, history>>

\* pkg/errors.Wrap, lines 279, 283 and 296: a nil error stays nil.
Wrap(e, msg) == IF e = NoBootErr THEN NoBootErr ELSE msg

\* How many calls of `op` the client has received.
NumCalls(op) == Cardinality({i \in 1..Len(calls) : calls[i].op = op})

\* NewWithClient called with the batchInterval `d`, lines 72-75: an
\* interval that SetBatchInterval refuses ends the constructor with that
\* error.
New_SetBatchInterval(d) ==
    /\ npc = "SetBatchInterval"
    /\ IF IntervalTooShort(d)
       THEN /\ npc' = "failed"
            /\ bootErr' = "ConfigError"
            /\ UNCHANGED batchInterval
       ELSE /\ npc' = "DescribeLogStreams"
            /\ batchInterval' = d
            /\ UNCHANGED bootErr
    /\ UNCHANGED <<running, nextSequenceToken, dpc, ppc, calls, logStream>>

\* What the client can answer to DescribeLogStreams: an output with the
\* stream, an output without streams, a nil output with a nil error, a
\* ResourceNotFoundException, any other error.
DescribeAnswers == {"found", "empty", "nil", "ResourceNotFound", "error"}
\* The UploadSequenceToken of a stream that was found.
UploadTokens == {NoToken, "t1"}

\* The err and the output of an answer of DescribeLogStreams.
DescribeErr(ans) ==
    IF ans \in {"ResourceNotFound", "error"} THEN ans ELSE NoBootErr

DescribeOutputNil(ans) == ans \notin {"found", "empty"}

\* getOrCreateLogStream, line 281: after CreateLogGroup has succeeded the
\* function calls itself, which starts with DescribeLogStreams.
AfterCreateLogGroup_noRetry == "CreateLogStream"

AfterCreateLogGroup == "DescribeLogStreams"

\* getOrCreateLogStream returns (stream, e) to NewWithClient.
ReturnStream(stream, e) ==
    /\ npc' = "got"
    /\ logStream' = stream
    /\ bootErr' = e

\* getOrCreateLogStream, lines 268-288: DescribeLogStreams and the branch
\* on its answer.
getOrCreateLogStream_Describe(ans, tok) ==
    /\ npc = "DescribeLogStreams"
    /\ NumCalls("DescribeLogStreams") < MaxDescribe
    /\ calls' = Append(calls, [op |-> "DescribeLogStreams", res |-> ans])
    /\ IF DescribeErr(ans) # NoBootErr \/ DescribeOutputNil(ans)
       THEN IF DescribeErr(ans) = "ResourceNotFound"
            THEN npc' = "CreateLogGroup" /\ UNCHANGED <<logStream, bootErr>>
            ELSE ReturnStream(NoStream, Wrap(DescribeErr(ans), "DescribeLogStreams"))
       ELSE IF ans = "found"
            THEN ReturnStream([ok |-> TRUE, tok |-> tok], NoBootErr)
            ELSE npc' = "CreateLogStream" /\ UNCHANGED <<logStream, bootErr>>
    /\ UNCHANGED <<running, batchInterval, nextSequenceToken, dpc, ppc>>

\* getOrCreateLogStream, lines 275-281: CreateLogGroup; on success the
\* function starts again.
getOrCreateLogStream_CreateLogGroup(ans) ==
    /\ npc = "CreateLogGroup"
    /\ calls' = Append(calls, [op |-> "CreateLogGroup", res |-> ans])
    /\ IF ans = "error"
       THEN ReturnStream(NoStream, Wrap(ans, "CreateLogGroup"))
       ELSE npc' = AfterCreateLogGroup /\ UNCHANGED <<logStream, bootErr>>
    /\ UNCHANGED <<running, batchInterval, nextSequenceToken, dpc, ppc>>

\* getOrCreateLogStream, lines 291-300: CreateLogStream; on success an
\* empty LogStream is returned, whose UploadSequenceToken is nil.
getOrCreateLogStream_CreateLogStream(ans) ==
    /\ npc = "CreateLogStream"
    /\ calls' = Append(calls, [op |-> "CreateLogStream", res |-> ans])
    /\ IF ans = "error"
       THEN ReturnStream(NoStream, Wrap(ans, "CreateLogStream"))
       ELSE ReturnStream([ok |-> TRUE, tok |-> NoToken], NoBootErr)
    /\ UNCHANGED <<running, batchInterval, nextSequenceToken, dpc, ppc>>

\* NewWithClient, lines 77-85: an error ends the constructor; otherwise
\* logStream.UploadSequenceToken is read (a nil logStream panics), the
\* dispatcher is started and the writer is returned to the callers.  The
\* local logStream ends with the call.
New_afterGet ==
    /\ npc = "got"
    /\ logStream' = NoStream
    /\ IF bootErr # NoBootErr
       THEN npc' = "failed" /\ UNCHANGED <<nextSequenceToken, dpc, ppc>>
       ELSE IF ~logStream.ok
            THEN npc' = "panicked" /\ UNCHANGED <<nextSequenceToken, dpc, ppc>>
            ELSE /\ nextSequenceToken' = logStream.tok
                 /\ dpc' = "start"
                 /\ ppc' = [p \in Producers |-> "idle"]
                 /\ npc' = "returned"
    /\ UNCHANGED <<running, batchInterval, calls, bootErr>>

\* ------------------------------------------------------- specifications
\* The remote answers a PutLogEvents call that carried the token `sent`
\* with a token other than `sent`: the stream's next token on success, the
\* token it expected on an InvalidSequenceTokenException.
AnswerTokens(sent) == Tokens \ {sent}

sendBatch ==
    \/ sendBatch_skip
    \/ \E t \in AnswerTokens(nextSequenceToken) : sendBatch_ok(t)
    \/ \E t \in AnswerTokens(nextSequenceToken) : sendBatch_invalidToken(t)
    \/ sendBatch_err

queueMonitor ==
    \/ queueMonitor_start
    \/ queueMonitor_loop
    \/ queueMonitor_afterTime
    \/ queueMonitor_afterSize
    \/ queueMonitor_afterCount
    \/ queueMonitor_isClosing
    \/ queueMonitor_afterClosing
    \/ sendBatch

\* The calls of one producer goroutine, which starts at most `budget` calls
\* of Write in all.
Producer(p, budget) ==
    \/ \E l \in MsgLens : nWrites < budget /\ Write_Enqueue(p, l)
    \/ Write_getErr(p)
    \/ Write_setErr(p)
    \/ Close_setClosing(p)
    \/ Close_done(p)
    \/ \E d \in Intervals : SetBatchInterval(p, d)

\* Producers that call concurrently.
Next == queueMonitor \/ Tick \/ \E p \in Producers : Producer(p, MaxWritesShared)

Spec == Init /\ [][Next]_vars

\* One producer goroutine: its calls are sequential.
NextSingle ==
    queueMonitor \/ Tick \/ \E p \in SingleProducer : Producer(p, MaxWrites)

SpecSingle == Init /\ [][NextSingle]_vars

\* The constructor, then the writer it returns with one producer goroutine.
NewWithClient ==
    \/ \E d \in Intervals : New_SetBatchInterval(d)
    \/ \E ans \in DescribeAnswers, tok \in UploadTokens :
          getOrCreateLogStream_Describe(ans, tok)
    \/ \E ans \in {"ok", "error"} : getOrCreateLogStream_CreateLogGroup(ans)
    \/ \E ans \in {"ok", "error"} : getOrCreateLogStream_CreateLogStream(ans)
    \/ New_afterGet

NextNew ==
    \/ NewWithClient
    \/ queueMonitor
    \/ Tick
    \/ \E p \in SingleProducer : Producer(p, MaxWritesShared)

SpecNew == InitNew /\ [][NextNew]_vars

\* One producer goroutine and a fairly scheduled dispatcher: queueMonitor
\* runs in a goroutine of its own, every remote call returns, and a Close
\* that waits on a closed channel returns.
LiveSpec ==
    /\ Init
    /\ [][NextSingle]_vars
    /\ WF_vars(queueMonitor)
    /\ \A p \in SingleProducer : WF_vars(Close_done(p))

\* ------------------------------------------------------------ properties
\* What a call of Write returns, at the step that returns.
Returns(p) == ppc[p] \in {"getErr", "setErr"} /\ ppc'[p] = "idle"

RetErr(p) == IF ppc[p] = "setErr" THEN lastErr[p] ELSE NoErr

RetN(p) == IF ppc[p] = "setErr" THEN 0 ELSE log[p]

\* A step in which the remote receives a PutLogEvents call.
PutStep == lastPut' # lastPut

\* How many batches' first calls held the event `id`.
FlushCount(id) == Cardinality({i \in 1..Len(sentIds) : sentIds[i] = id})

Increasing(ids) == \A i, j \in 1..Len(ids) : i < j => ids[i] < ids[j]

RECURSIVE BatchBytes(_)
BatchBytes(b) == IF b = <<>> THEN 0 ELSE MessageSize(Head(b)) + BatchBytes(Tail(b))

\* C1: once Close has returned, every event enqueued before Close was called
\* has been part of exactly one flush (one batch handed to sendBatch and put).
C1_CloseDrains ==
    closeReturned => \A id \in 1..closeCalledAt : FlushCount(id) = 1

\* C2: every batch passed to PutLogEvents has a total size, the sum of
\* len(message)+26 over its events, of at most batchSizeLimit, whatever the
\* lengths of the messages written.
C2_BatchWithinSizeLimit == BatchBytes(lastPut.events) <= batchSizeLimit

\* C3: with producers that call Write concurrently, the error stored by one
\* failed send is returned by at most one call of Write.
C3_ErrorReturnedOnce == \A e \in ErrIds : returned[e] <= 1

\* C4: with one producer, (1) the first Write that starts after a send has
\* failed and its error has not yet been read returns an error with 0 bytes
\* (that error, or a later one that replaced it), and (2) the Write after
\* one that returned an error, with no failed send since, returns
\* (len(message), nil).
C4_ErrorThenNil ==
    [][\A p \in SingleProducer : Returns(p) =>
          /\ wOwed[p] # NoErr => RetErr(p) >= wOwed[p] /\ RetN(p) = 0
          /\ prevErr[p] => RetErr(p) = NoErr /\ RetN(p) = log[p]]_vars

\* C5: a recorded error leaves c.err (replaced by a later failure, or
\* cleared by Write) only when a call of Write has returned it or is about
\* to return it.
C5_NoErrorLost ==
    [][err # NoErr /\ err' # err =>
          \/ returned'[err] > 0
          \/ \E p \in Producers : ppc'[p] = "setErr" /\ lastErr'[p] = err]_vars

\* C6 as stated: after any PutLogEvents call that fails with an invalid
\* token reporting T, the next call is a retry of the same batch and
\* carries T.
C6_EveryConflictRetried ==
    [][PutStep /\ lastPut.res = "conflict" =>
          lastPut'.events = lastPut.events /\ lastPut'.token = lastPut.tok]_vars

\* C6 amended: after a batch's first PutLogEvents call fails with an invalid
\* token reporting T, sendBatch is still running with the token T stored,
\* and the next call is the retry of the same batch carrying T; after the
\* retry fails the same way reporting T2, the next call is for another batch
\* and carries T2.
C6_FirstConflictRetried ==
    /\ [](lastPut.res = "conflict" /\ lastPut.nth = 1 =>
            /\ InSend /\ retryNum = 1 /\ batch = lastPut.events
            /\ nextSequenceToken = lastPut.tok)
    /\ [][PutStep /\ lastPut.res = "conflict" =>
            /\ lastPut'.token = lastPut.tok
            /\ lastPut.nth = 1 =>
                 lastPut'.events = lastPut.events /\ lastPut'.retry = 1
            /\ lastPut.nth = 2 => lastPut'.events # lastPut.events]_vars

\* The retry of a batch has been put, with the token the conflict reported.
C6_Witness ==
    lastPut.nth = 2 /\ lastPut.retry = 1 /\ lastPut.token \in Tokens

\* C7: a batch gets at most two PutLogEvents calls, the second being the one
\* retry; after two invalid-token failures sendBatch returns without a
\* third call, the batch's events are put in no later batch, and the
\* dispatcher goes on.
C7_AtMostOneRetry ==
    /\ lastPut.nth <= 2
    /\ lastPut.nth = 2 => lastPut.retry = 1
    /\ \A id \in 1..nWrites : FlushCount(id) <= 1
    /\ InSend /\ retryNum > 1 =>
         /\ lastPut.res = "conflict" /\ lastPut.nth = 2
         /\ ENABLED sendBatch_skip

\* A batch was dropped after two invalid-token failures and the dispatcher
\* has gone on to batch a later event.
C7_Witness ==
    /\ lastPut.nth = 2 /\ lastPut.res = "conflict"
    /\ dpc = "loop" /\ batch # <<>>
    /\ \A i \in 1..Len(lastPut.events) : lastPut.events[i].id < batch[1].id

\* C8: events are put in the order they were enqueued: within a batch, and
\* from one batch's first call to the next batch's.
C8_FifoOrder == Increasing(sentIds) /\ Increasing(Ids(lastPut.events))

\* Two events enqueued by Write calls that overlap have both been put.
C8_Witness ==
    /\ Len(sentIds) >= 2
    /\ \A p \in Producers : ppc[p] = "getErr"

\* C9: no batch passed to PutLogEvents holds more than maxNumLogEvents
\* events: a batch that reaches that length is sent before anything else is
\* dequeued.
C9_BatchWithinCountLimit ==
    /\ Len(lastPut.events) <= maxNumLogEvents
    /\ Len(batch) <= maxNumLogEvents
    /\ Len(batch) = maxNumLogEvents => dpc \in {"send_count", "after_count"}

\* A full batch has been put by the count-triggered send.
C9_Witness ==
    Len(lastPut.events) = maxNumLogEvents /\ dpc = "after_count"

\* C10: a call of Close returns: after closing is set the dispatcher finds
\* the queue empty, sends the last batch, closes done once and exits.
C10_CloseReturns ==
    /\ closing ~> closeReturned
    /\ [][(done => done') /\ (~done /\ done' => dpc' = "exited")]_vars
    /\ [](dpc = "exited" => done)

\* Close has returned after the dispatcher put a batch and exited.
C10_Witness == closeReturned /\ dpc = "exited" /\ lastPut.res # "none"

\* C11: SetBatchInterval refuses an interval below minBatchInterval and
\* changes nothing, and stores any other interval, changing nothing else; a
\* constructed writer's batchInterval is never below minBatchInterval; a
\* constructor called with an interval below the minimum fails with that
\* error before any call to the client and before the dispatcher starts.
C11_IntervalFloor ==
    /\ [](npc = "returned" => batchInterval >= minBatchInterval)
    /\ [](bootErr = "ConfigError" =>
            /\ npc = "failed" /\ calls = <<>>
            /\ batchInterval = 0 /\ dpc = "unstarted")
    /\ [][\A d \in Intervals : New_SetBatchInterval(d) =>
            IF d < minBatchInterval
            THEN /\ npc' = "failed" /\ bootErr' = "ConfigError"
                 /\ UNCHANGED <<fields, calls, dpc>>
            ELSE npc' = "DescribeLogStreams" /\ batchInterval' = d]_vars
    /\ [][\A p \in SingleProducer, d \in Intervals : SetBatchInterval(p, d) =>
            IF d < minBatchInterval THEN UNCHANGED vars ELSE batchInterval' = d]_vars
    /\ [][batchInterval' # batchInterval =>
            /\ batchInterval' \in Intervals
            /\ batchInterval' >= minBatchInterval
            /\ UNCHANGED <<running, nextSequenceToken, dpc, ppc, calls, logStream>>]_vars

\* A writer was built and is in use, and holds an interval longer than the
\* minimum, which SetBatchInterval stored.
C11_Witness ==
    /\ npc = "returned" /\ nWrites > 0
    /\ batchInterval = 2 * minBatchInterval

\* The operations of the calls the client received, in order.
Ops(c) == [i \in 1..Len(c) |-> c[i].op]

IsPrefix(s, t) == Len(s) <= Len(t) /\ \A i \in 1..Len(s) : s[i] = t[i]

\* After the first answer the remote is consistent with a group that had to
\* be created: CreateLogGroup and CreateLogStream succeed and the new group
\* has no streams.
ConsistentAfterFirst(c) ==
    \A i \in 2..Len(c) :
        c[i].res = IF c[i].op = "DescribeLogStreams" THEN "empty" ELSE "ok"

CreateBoth ==
    <<"DescribeLogStreams", "CreateLogGroup", "DescribeLogStreams", "CreateLogStream">>

\* C12: when the first DescribeLogStreams fails because the log group does
\* not exist and the remote is consistent afterwards, the constructor calls
\* CreateLogGroup, DescribeLogStreams again and CreateLogStream, in that
\* order and nothing else, succeeds, and starts the writer with a nil
\* sequence token; the dispatcher starts and PutLogEvents is called only
\* after the constructor has made all its calls.
C12_MissingGroupCreated ==
    /\ [](Len(calls) >= 1 /\ calls[1].res = "ResourceNotFound"
             /\ ConsistentAfterFirst(calls) =>
            /\ IsPrefix(Ops(calls), CreateBoth)
            /\ npc \notin {"failed", "panicked"}
            /\ npc \in {"got", "returned"} => Ops(calls) = CreateBoth
            /\ npc = "got" => logStream = [ok |-> TRUE, tok |-> NoToken]
            /\ npc = "returned" /\ lastPut = NoPut => nextSequenceToken = NoToken)
    /\ [](dpc # "unstarted" \/ lastPut # NoPut => npc = "returned")
    /\ [][npc = "returned" => calls' = calls]_vars
    /\ [][dpc = "unstarted" /\ dpc' # dpc =>
            dpc' = "start" /\ nextSequenceToken' = logStream.tok]_vars

\* The group and the stream were created, and the first batch was put with
\* a nil token.
C12_Witness ==
    /\ npc = "returned" /\ Ops(calls) = CreateBoth
    /\ calls[1].res = "ResourceNotFound" /\ ConsistentAfterFirst(calls)
    /\ lastPut.res = "ok" /\ lastPut.token = NoToken

\* The batch holds the first events written, all of them, in enqueue order.
FirstEvents(b) == b # <<>> /\ \A i \in 1..Len(b) : b[i].id = i

\* Neither limit is reached by the batch (no dequeued event is held back
\* because it would push the batch over the size limit), and Close has not
\* been called.
NoLimitNoClose(b) ==
    /\ BatchBytes(b) <= batchSizeLimit
    /\ item = NoItem
    /\ Len(b) < maxNumLogEvents
    /\ ~closing

\* C13, the part that holds as stated: while the first send time has not
\* passed, no limit is reached and Close is not called, nothing is put and
\* the events written so far are in the batch and the queue, in enqueue
\* order; the batch of these first events is sent by the time-triggered
\* send only, strictly after the send time, and the call carries the whole
\* batch.
C13_FirstBatchAtDeadline ==
    /\ [](dpc \in {"loop", "isClosing"} /\ now <= nextSendTime
             /\ sentIds = <<>> /\ NoLimitNoClose(batch) =>
            /\ lastPut = NoPut
            /\ Ids(batch) \o Ids(queue) = [i \in 1..nWrites |-> i])
    /\ [](InSend /\ FirstEvents(batch) /\ NoLimitNoClose(batch) =>
            dpc = "send_time" /\ now > nextSendTime)
    /\ [][PutStep /\ FirstEvents(batch) /\ NoLimitNoClose(batch) =>
            dpc = "send_time" /\ now > nextSendTime /\ lastPut'.events = batch]_vars
    /\ [][dpc = "loop" /\ now > nextSendTime /\ dpc' # dpc => dpc' = "send_time"]_vars

C14_IdleMakesNoCall ==
    /\ nWrites = 0 => queue = <<>> /\ batch = <<>> /\ lastPut = NoPut /\ sentIds = <<>>
    /\ InSend /\ batch = <<>> =>
         /\ ENABLED sendBatch_skip
         /\ ~ENABLED sendBatch_err
         /\ \A t \in Tokens : ~ENABLED sendBatch_ok(t) /\ ~ENABLED sendBatch_invalidToken(t)

\* Nothing was written, the send time passed and the time-triggered send
\* returned, then Close was called and has returned.
C14_Witness ==
    /\ nWrites = 0 /\ now > nextSendTime
    /\ closeReturned /\ dpc = "exited"

\* C15: when the dispatcher goes on after a time-triggered send, the batch
\* it continues with starts empty and nextSendTime is now + batchInterval,
\* so the send time has not passed again.
C15_DeadlineRecomputed ==
    [][dpc = "after_time" /\ dpc' # dpc =>
          /\ Len(batch') <= 1
          /\ nextSendTime' = now + batchInterval
          /\ ~(now > nextSendTime')]_vars

\* C16: whatever the client answers, the constructor calls
\* DescribeLogStreams at most twice and CreateLogGroup at most once.
C16_BootstrapBounded ==
    /\ NumCalls("DescribeLogStreams") <= 2
    /\ NumCalls("CreateLogGroup") <= 1

\* No event of `a` is an event of `b`.
Disjoint(a, b) == \A i \in 1..Len(a) : \A j \in 1..Len(b) : a[i].id # b[j].id

\* C17: when PutLogEvents fails with an error that is not an invalid
\* sequence token, on the first call or on the retry, that error is stored
\* in c.err and sendBatch returns without another call; nothing is put back
\* on the queue; the batch the dispatcher builds next, and the next
\* PutLogEvents call, hold none of the failed batch's events.
C17_FailureDropsBatch ==
    /\ [][PutStep /\ lastPut'.res = "fail" =>
            /\ nFail' = nFail + 1 /\ err' = nFail'
            /\ InSend /\ dpc' = AfterSend
            /\ queue' = queue]_vars
    /\ [][PutStep /\ lastPut.res = "fail" => Disjoint(lastPut'.events, lastPut.events)]_vars
    /\ [](lastPut.res = "fail" =>
            /\ Disjoint(queue, lastPut.events)
            /\ dpc \in {"loop", "isClosing"} \/ InSend => Disjoint(batch, lastPut.events))
    /\ [](\A id \in 1..nWrites : FlushCount(id) <= 1)

\* The retry of a batch failed, its error is stored, and the dispatcher has
\* gone on to batch a later event.
C17_Witness ==
    /\ lastPut.res = "fail" /\ lastPut.nth = 2 /\ err = nFail
    /\ dpc = "loop" /\ batch # <<>>

\* C18 as stated: nextSequenceToken changes only in a step in which
\* PutLogEvents succeeds; a failed call, with an invalid sequence token or
\* any other error, leaves it as it was, and so do Write, SetBatchInterval
\* and Close.
C18_TokenOnlyOnSuccess ==
    [][nextSequenceToken' # nextSequenceToken =>
          PutStep /\ lastPut'.res = "ok" /\ nextSequenceToken' = lastPut'.tok]_vars

\* C18 amended: nextSequenceToken changes only in sendBatch, in the step of
\* a PutLogEvents call: to the answer's NextSequenceToken on success and to
\* the expected token on every invalid-sequence-token failure, whether or
\* not the retry then succeeds; any other failure leaves it as it was.  So a
\* batch dropped after an invalid-token failure leaves the token that
\* failure reported, and a batch dropped on its first call leaves the token
\* unchanged.  Write, SetBatchInterval and Close never change it.
C18_TokenFollowsAnswers ==
    /\ [][nextSequenceToken' # nextSequenceToken =>
            /\ PutStep /\ InSend
            /\ lastPut'.res \in {"ok", "conflict"}]_vars
    /\ [][PutStep =>
            nextSequenceToken' =
                IF lastPut'.res = "fail" THEN nextSequenceToken ELSE lastPut'.tok]_vars
    /\ [](lastPut.res = "fail" /\ lastPut.nth = 2 =>
            nextSequenceToken = lastPut.token /\ lastPut.token \in Tokens)
    /\ [](lastPut.res = "conflict" => nextSequenceToken = lastPut.tok)
    /\ [][\A p \in SingleProducer :
            ppc'[p] # ppc[p] \/ batchInterval' # batchInterval =>
                nextSequenceToken' = nextSequenceToken]_vars

\* A batch was dropped when its retry failed, and the token is the one the
\* invalid-token failure reported, not the one held before the send.
C18_Witness ==
    /\ lastPut.res = "fail" /\ lastPut.nth = 2
    /\ dpc \in {"after_time", "after_closing", "after_size", "after_count"}
    /\ nextSequenceToken = lastPut.token /\ nextSequenceToken = "t2"

\* C19: whatever the client answers, getOrCreateLogStream returns a non-nil
\* error or a stream, never neither; so the constructor fails with an error
\* or reads the token of a stream, and starts the dispatcher only then.
C19_StreamOrError ==
    /\ npc = "got" => bootErr # NoBootErr \/ logStream.ok
    /\ npc # "panicked"
    /\ dpc # "unstarted" => npc = "returned" /\ bootErr = NoBootErr

\* C20: a Write called after Close has returned appends its event to the
\* queue and, with no error stored, returns (len(log), nil); once c.done is
\* closed the dispatcher has exited: nothing is dequeued, PutLogEvents is
\* not called again, and the events on the queue are in no call.
C20_WriteAfterClose ==
    /\ [](done => dpc = "exited")
    /\ [](done => \A i \in 1..Len(queue) : FlushCount(queue[i].id) = 0)
    /\ [][done => lastPut' = lastPut /\ sentIds' = sentIds /\ IsPrefix(queue, queue')]_vars
    /\ [][\A p \in SingleProducer :
            closeReturned /\ ppc[p] = "idle" /\ ppc'[p] = "getErr" =>
                queue' = Append(queue, [id |-> nWrites', len |-> log'[p]])]_vars
    /\ [][\A p \in SingleProducer :
            closeReturned /\ Returns(p) /\ ppc[p] = "getErr" /\ err = NoErr =>
                RetErr(p) = NoErr /\ RetN(p) = log[p] /\ log[p] \in MsgLens]_vars

\* A Write called after Close returned has returned, and its event is on the
\* queue of the writer whose dispatcher has exited.
C20_Witness ==
    /\ closeReturned /\ dpc = "exited" /\ ppc["p1"] = "idle"
    /\ queue # <<>> /\ queue[Len(queue)].id > closeCalledAt
    /\ queue[Len(queue)].id = nWrites

====
